---- MODULE Spec2Model ----
(***************************************************************************)
(* Model of the PSBT container of descriptor-wallet                        *)
(* (psbt/src/modern/psbt.rs): the constructor Psbt::with and the two       *)
(* conversions From<PsbtV0> for Psbt and From<Psbt> for PsbtV0.            *)
(*                                                                         *)
(* A run starts from one source value (a transaction handed to Psbt::with, *)
(* a legacy container PsbtV0 or a modern container Psbt) and applies the   *)
(* operations one after the other; `chain` records the source and every    *)
(* value produced from it, in order.                                       *)
(*                                                                         *)
(* Number representation.  i32 values are TLA+ integers.  A u32 that may   *)
(* exceed 2^31-1 (tx_version) is held as two 16-bit limbs [hi, lo], its    *)
(* value being hi * 65536 + lo.  Locktimes are u32 values that are only    *)
(* copied and compared; the ones used are small naturals.                  *)
(***************************************************************************)
EXTENDS Integers, Sequences, FiniteSets, TLC

VARIABLES chain

vars == <<chain>>

-----------------------------------------------------------------------------
(* Bounds of the model *)

MaxInputs == 3
MaxOutputs == 1
MaxChain == 4

-----------------------------------------------------------------------------
(* Generic helpers *)

\* Option<T>: None is the empty sequence, Some(x) the sequence <<x>>.
None == <<>>
Some(x) == <<x>>

Ok(v) == [ok |-> TRUE, value |-> v]
Err(e) == [ok |-> FALSE, error |-> e]

SeqsUpTo(S, n) == UNION {[1..k -> S] : k \in 0..n}

SetMin(S) == CHOOSE x \in S : \A y \in S : x <= y
SetMax(S) == CHOOSE x \in S : \A y \in S : x >= y

MinI32 == -2147483647 - 1

-----------------------------------------------------------------------------
(* 32-bit integer conversions of the standard library, as the code uses them *)

\* i32::to_be_bytes: the four bytes of the two's complement pattern, most
\* significant first.
I32ToBeBytes(v) ==
    LET low == IF v < 0 THEN v - MinI32 ELSE v
        top == (low \div 16777216) + (IF v < 0 THEN 128 ELSE 0)
    IN  <<top, (low \div 65536) % 256, (low \div 256) % 256, low % 256>>

\* u32::from_be_bytes
U32FromBeBytes(b) == [hi |-> b[1] * 256 + b[2], lo |-> b[3] * 256 + b[4]]

\* u32::to_be_bytes
U32ToBeBytes(u) == <<u.hi \div 256, u.hi % 256, u.lo \div 256, u.lo % 256>>

\* i32::from_be_bytes
I32FromBeBytes(b) ==
    LET low == (b[1] % 128) * 16777216 + b[2] * 65536 + b[3] * 256 + b[4]
    IN  IF b[1] >= 128 THEN low + MinI32 ELSE low

-----------------------------------------------------------------------------
(* Errors *)

\* TxinError: the input at `index` already carries signature data.
TxinError(index) == [type |-> "TxinError", index |-> index]

\* TxError::from(TxinError)
TxErrorFromTxin(e) == [type |-> "TxError::Txin", index |-> e.index]

\* TxError::InvalidTxVersion(i32)
InvalidTxVersion(v) == [type |-> "TxError::InvalidTxVersion", version |-> v]

-----------------------------------------------------------------------------
(* Input and Output records *)

\* InputV0::default(), OutputV0::default(): no signing metadata.
InputV0Default == [unknown |-> <<>>]
OutputV0Default == [unknown |-> <<>>]

\* Input::new(index, txin): the input must be unsigned.
InputNew(index, txin) ==
    IF txin.script_sig # <<>> \/ txin.witness # <<>>
    THEN Err(TxinError(index))
    ELSE Ok([index |-> index,
             previous_output |-> txin.previous_output,
             required_locktime |-> None,
             v0 |-> InputV0Default])

\* Input::with(index, v0, txin): a legacy input carries no locktime requirement.
InputWith(index, v0, txin) ==
    [index |-> index,
     previous_output |-> txin.previous_output,
     required_locktime |-> None,
     v0 |-> v0]

\* Input::split(self) -> (InputV0, TxIn)
InputSplit(input) ==
    <<input.v0,
      [previous_output |-> input.previous_output,
       script_sig |-> <<>>,
       witness |-> <<>>]>>

\* Input::locktime(&self) -> Option<u32>
InputLocktime(input) == input.required_locktime

\* Output::new(index, txout)
OutputNew(index, txout) ==
    [index |-> index,
     value |-> txout.value,
     script_pubkey |-> txout.script_pubkey,
     v0 |-> OutputV0Default]

\* Output::with(index, v0, txout)
OutputWith(index, v0, txout) ==
    [index |-> index,
     value |-> txout.value,
     script_pubkey |-> txout.script_pubkey,
     v0 |-> v0]

\* Output::split(self) -> (OutputV0, TxOut)
OutputSplit(output) ==
    <<output.v0,
      [value |-> output.value, script_pubkey |-> output.script_pubkey]>>

\* PsbtVersion::V0 as u32
PsbtVersionAsU32(v) == IF v = "V0" THEN 0 ELSE 2

-----------------------------------------------------------------------------
(* Psbt::with *)

\* A collect that drops the inputs Input::new rejects.
CollectInputs_skipFailing(input) ==
    LET kept == SelectSeq(input, LAMBDA txin : InputNew(0, txin).ok)
    IN  Ok([i \in 1..Len(kept) |-> InputNew(i - 1, kept[i]).value])

\* tx.input.into_iter().enumerate().map(Input::new ... map_err(TxError::from))
\*   .collect::<Result<_, TxError>>(): the records in order, or the error of
\* the first input that fails.
CollectInputs(input) ==
    LET results == [i \in 1..Len(input) |-> InputNew(i - 1, input[i])]
        failing == {i \in 1..Len(input) : ~results[i].ok}
    IN  IF failing # {}
        THEN Err(TxErrorFromTxin(results[SetMin(failing)].error))
        ELSE Ok([i \in 1..Len(input) |-> results[i].value])

\* tx.output.into_iter().enumerate().map(Output::new).collect()
CollectOutputs(output) ==
    [i \in 1..Len(output) |-> OutputNew(i - 1, output[i])]

\* A cast `as u32`: keeps the bit pattern and never fails.
TryIntoU32_wrapping(v) == Ok(U32FromBeBytes(I32ToBeBytes(v)))

\* unsigned_abs(): the magnitude, never fails.
TryIntoU32_abs(v) ==
    IF v = MinI32 THEN Ok([hi |-> 32768, lo |-> 0])
    ELSE LET a == IF v < 0 THEN -v ELSE v
         IN  Ok([hi |-> a \div 65536, lo |-> a % 65536])

\* i32_version.try_into(): u32::try_from(i32) fails on a negative value and
\* keeps the numeric value otherwise.
TryIntoU32(v) ==
    IF v < 0 THEN Err("TryFromIntError")
    ELSE Ok([hi |-> v \div 65536, lo |-> v % 65536])

PsbtWith(tx, psbt_version) ==
    LET inputs == CollectInputs(tx.input)
        outputs == CollectOutputs(tx.output)
        tx_version == TryIntoU32(tx.version)
    IN  IF ~inputs.ok THEN Err(inputs.error)
        ELSE IF ~tx_version.ok THEN Err(InvalidTxVersion(tx.version))
        ELSE Ok([psbt_version |-> psbt_version,
                 xpub |-> <<>>,
                 tx_version |-> tx_version.value,
                 fallback_locktime |-> tx.lock_time,
                 inputs |-> inputs.value,
                 outputs |-> outputs,
                 proprietary |-> <<>>,
                 unknown |-> <<>>])

-----------------------------------------------------------------------------
(* From<PsbtV0> for Psbt *)

ShorterLen(a, b) == IF Len(a) <= Len(b) THEN Len(a) ELSE Len(b)

\* v0.inputs.into_iter().zip(tx.input).enumerate().map(Input::with).collect():
\* zip stops at the end of the shorter sequence.
ZipInputs(v0) ==
    [i \in 1..ShorterLen(v0.inputs, v0.unsigned_tx.input) |->
        InputWith(i - 1, v0.inputs[i], v0.unsigned_tx.input[i])]

ZipOutputs(v0) ==
    [i \in 1..ShorterLen(v0.outputs, v0.unsigned_tx.output) |->
        OutputWith(i - 1, v0.outputs[i], v0.unsigned_tx.output[i])]

\* A numeric, saturating conversion of the version.
TxVersionToU32_saturating(version) ==
    IF version < 0 THEN [hi |-> 0, lo |-> 0]
    ELSE [hi |-> version \div 65536, lo |-> version % 65536]

\* u32::from_be_bytes(tx.version.to_be_bytes())
TxVersionToU32(version) == U32FromBeBytes(I32ToBeBytes(version))

\* The tag a conversion to the other generation might be expected to set.
FromV0PsbtVersion_modern == "V2"

\* psbt_version: PsbtVersion::V0
FromV0PsbtVersion == "V0"

\* A conversion that takes the fallback locktime from nowhere.
PsbtFromV0_noLocktime(v0) ==
    [psbt_version |-> FromV0PsbtVersion,
     xpub |-> v0.xpub,
     tx_version |-> TxVersionToU32(v0.unsigned_tx.version),
     fallback_locktime |-> 0,
     inputs |-> ZipInputs(v0),
     outputs |-> ZipOutputs(v0),
     proprietary |-> v0.proprietary,
     unknown |-> v0.unknown]

PsbtFromV0(v0) ==
    [psbt_version |-> FromV0PsbtVersion,
     xpub |-> v0.xpub,
     tx_version |-> TxVersionToU32(v0.unsigned_tx.version),
     fallback_locktime |-> v0.unsigned_tx.lock_time,
     inputs |-> ZipInputs(v0),
     outputs |-> ZipOutputs(v0),
     proprietary |-> v0.proprietary,
     unknown |-> v0.unknown]

-----------------------------------------------------------------------------
(* From<Psbt> for PsbtV0 *)

\* i32::from_be_bytes(psbt.tx_version.to_be_bytes())
TxVersionToI32(tx_version) == I32FromBeBytes(U32ToBeBytes(tx_version))

\* filter_map(Input::locktime).max(), folded over the inputs in order.
RECURSIVE MaxLocktime(_, _)
MaxLocktime(inputs, acc) ==
    IF inputs = <<>> THEN acc
    ELSE LET lt == InputLocktime(Head(inputs))
             next == IF lt = None THEN acc
                     ELSE IF acc = None THEN lt
                     ELSE IF lt[1] >= acc[1] THEN lt ELSE acc
         IN  MaxLocktime(Tail(inputs), next)

\* The fallback takes part in the maximum.
ResolveLockTime_fallbackCompetes(psbt) ==
    MaxLocktime(psbt.inputs, Some(psbt.fallback_locktime))[1]

\* unwrap_or_default() in place of unwrap_or(fallback_locktime).
ResolveLockTime_zeroDefault(psbt) ==
    LET m == MaxLocktime(psbt.inputs, None)
    IN  IF m = None THEN 0 ELSE m[1]

\* .max().unwrap_or(psbt.fallback_locktime)
ResolveLockTime(psbt) ==
    LET m == MaxLocktime(psbt.inputs, None)
    IN  IF m = None THEN psbt.fallback_locktime ELSE m[1]

\* psbt.inputs.into_iter().map(Input::split).unzip()
SplitInputs(psbt) ==
    LET pairs == [i \in 1..Len(psbt.inputs) |-> InputSplit(psbt.inputs[i])]
    IN  <<[i \in 1..Len(pairs) |-> pairs[i][1]],
          [i \in 1..Len(pairs) |-> pairs[i][2]]>>

\* psbt.outputs.into_iter().map(Output::split).unzip()
SplitOutputs(psbt) ==
    LET pairs == [i \in 1..Len(psbt.outputs) |-> OutputSplit(psbt.outputs[i])]
    IN  <<[i \in 1..Len(pairs) |-> pairs[i][1]],
          [i \in 1..Len(pairs) |-> pairs[i][2]]>>

\* A conversion that forgets the unknown global entries.
PsbtV0FromPsbt_dropUnknown(psbt) ==
    [unsigned_tx |-> [version |-> TxVersionToI32(psbt.tx_version),
                      lock_time |-> ResolveLockTime(psbt),
                      input |-> SplitInputs(psbt)[2],
                      output |-> SplitOutputs(psbt)[2]],
     version |-> PsbtVersionAsU32("V0"),
     xpub |-> psbt.xpub,
     proprietary |-> psbt.proprietary,
     unknown |-> <<>>,
     inputs |-> SplitInputs(psbt)[1],
     outputs |-> SplitOutputs(psbt)[1]]

PsbtV0FromPsbt(psbt) ==
    [unsigned_tx |-> [version |-> TxVersionToI32(psbt.tx_version),
                      lock_time |-> ResolveLockTime(psbt),
                      input |-> SplitInputs(psbt)[2],
                      output |-> SplitOutputs(psbt)[2]],
     version |-> PsbtVersionAsU32("V0"),
     xpub |-> psbt.xpub,
     proprietary |-> psbt.proprietary,
     unknown |-> psbt.unknown,
     inputs |-> SplitInputs(psbt)[1],
     outputs |-> SplitOutputs(psbt)[1]]

-----------------------------------------------------------------------------
(* The values a run starts from *)

TxVersions == {0, 1, 2, 16909060, 2147483647, -1, MinI32}
LegacyTxVersions == {1, 16909060, 2147483647, -1, MinI32}
ModernTxVersions ==
    {[hi |-> 0, lo |-> 1], [hi |-> 0, lo |-> 2], [hi |-> 258, lo |-> 772],
     [hi |-> 32767, lo |-> 65535], [hi |-> 65535, lo |-> 65535]}
LockTimes == {50, 600}
RequiredLocktimes == {None, Some(100), Some(500)}

Unsigned(p) == [previous_output |-> p, script_sig |-> <<>>, witness |-> <<>>]
UnsignedTxIns == {Unsigned(1), Unsigned(2)}
TxIns ==
    UnsignedTxIns \union
    {[previous_output |-> 1, script_sig |-> <<81>>, witness |-> <<>>],
     [previous_output |-> 2, script_sig |-> <<>>, witness |-> <<<<48>>>>]}
TxOuts == {[value |-> 1000, script_pubkey |-> <<81>>],
           [value |-> 2000, script_pubkey |-> <<82>>]}

InputV0s == {InputV0Default, [unknown |-> (153 :> <<190, 239>>)]}
OutputV0s == {[unknown |-> (153 :> <<190, 239>>)]}

\* The three global maps: all empty, or each with one entry.
GlobalMaps ==
    {[xpub |-> <<>>, proprietary |-> <<>>, unknown |-> <<>>],
     [xpub |-> ("xpub661My" :> <<"73c5da0a", "m/84h/0h/0h">>),
      proprietary |-> (<<252, "testvendor">> :> <<222, 173>>),
      unknown |-> (153 :> <<190, 239>>)]}

Transactions ==
    [version : TxVersions, lock_time : {600},
     input : SeqsUpTo(TxIns, MaxInputs), output : SeqsUpTo(TxOuts, MaxOutputs)]

\* Legacy containers; the fields are public, so the arrays need not be as long
\* as the transaction's.  The embedded transaction is unsigned.
LegacyContainers ==
    {[unsigned_tx |-> [version |-> v, lock_time |-> 600,
                       input |-> ti, output |-> to],
      version |-> PsbtVersionAsU32("V0"),
      xpub |-> g.xpub, proprietary |-> g.proprietary, unknown |-> g.unknown,
      inputs |-> pi, outputs |-> po] :
        v \in LegacyTxVersions, g \in GlobalMaps,
        ti \in SeqsUpTo(UnsignedTxIns, MaxInputs),
        to \in SeqsUpTo({[value |-> 1000, script_pubkey |-> <<81>>]}, MaxOutputs),
        pi \in SeqsUpTo(InputV0s, MaxInputs),
        po \in SeqsUpTo(OutputV0s, MaxOutputs)}

\* Modern containers; each record's index is its position.
ModernContainers ==
    {[psbt_version |-> pv, xpub |-> g.xpub, tx_version |-> v,
      fallback_locktime |-> fl,
      inputs |-> [i \in DOMAIN lts |->
                    [index |-> i - 1, previous_output |-> i,
                     required_locktime |-> lts[i], v0 |-> InputV0Default]],
      outputs |-> [i \in DOMAIN outs |->
                    [index |-> i - 1, value |-> outs[i].value,
                     script_pubkey |-> outs[i].script_pubkey,
                     v0 |-> OutputV0Default]],
      proprietary |-> g.proprietary, unknown |-> g.unknown] :
        pv \in {"V0", "V2"}, g \in GlobalMaps, v \in ModernTxVersions,
        fl \in LockTimes,
        lts \in SeqsUpTo(RequiredLocktimes, MaxInputs),
        outs \in SeqsUpTo(TxOuts, MaxOutputs)}

-----------------------------------------------------------------------------
(* The state machine *)

TxValue(tx, pv) == [kind |-> "tx", tx |-> tx, psbt_version |-> pv]
PsbtValue(psbt) == [kind |-> "psbt", psbt |-> psbt]
V0Value(v0) == [kind |-> "v0", v0 |-> v0]
ErrValue(e) == [kind |-> "err", error |-> e]

Current == chain[Len(chain)]

Init ==
    \/ \E tx \in Transactions, pv \in {"V0", "V2"} : chain = <<TxValue(tx, pv)>>
    \/ \E psbt \in ModernContainers : chain = <<PsbtValue(psbt)>>
    \/ \E v0 \in LegacyContainers : chain = <<V0Value(v0)>>

\* Psbt::with(tx, psbt_version)
With ==
    /\ Len(chain) < MaxChain
    /\ Current.kind = "tx"
    /\ LET r == PsbtWith(Current.tx, Current.psbt_version)
       IN  chain' = Append(chain, IF r.ok THEN PsbtValue(r.value)
                                  ELSE ErrValue(r.error))

\* Psbt::from(v0)
ToModern ==
    /\ Len(chain) < MaxChain
    /\ Current.kind = "v0"
    /\ chain' = Append(chain, PsbtValue(PsbtFromV0(Current.v0)))

\* PsbtV0::from(psbt)
ToLegacy ==
    /\ Len(chain) < MaxChain
    /\ Current.kind = "psbt"
    /\ chain' = Append(chain, V0Value(PsbtV0FromPsbt(Current.psbt)))

Next == With \/ ToModern \/ ToLegacy

Spec == Init /\ [][Next]_vars

-----------------------------------------------------------------------------
(* Vocabulary of the properties *)

Steps == 1..(Len(chain) - 1)
RoundTrips == 1..(Len(chain) - 2)

IsStep(i, from, to) == chain[i].kind = from /\ chain[i + 1].kind = to

\* The locktime requirements the inputs of a modern container declare.
Declared(psbt) ==
    {psbt.inputs[k].required_locktime[1] :
        k \in {j \in 1..Len(psbt.inputs) : psbt.inputs[j].required_locktime # None}}

Resolved(psbt) ==
    IF Declared(psbt) = {} THEN psbt.fallback_locktime ELSE SetMax(Declared(psbt))

Signed(txin) == txin.script_sig # <<>> \/ txin.witness # <<>>
SignedAt(tx) == {k \in 1..Len(tx.input) : Signed(tx.input[k])}

\* u holds the 32-bit two's complement pattern of the signed value s.
SameBits(s, u) ==
    IF s >= 0
    THEN u.hi < 32768 /\ u.hi * 65536 + u.lo = s
    ELSE u.hi >= 32768 /\ (u.hi - 32768) * 65536 + u.lo = s - MinI32

SameExceptTag(a, b) ==
    /\ a.xpub = b.xpub
    /\ a.tx_version = b.tx_version
    /\ a.fallback_locktime = b.fallback_locktime
    /\ a.inputs = b.inputs
    /\ a.outputs = b.outputs
    /\ a.proprietary = b.proprietary
    /\ a.unknown = b.unknown

IsContainer(x) == x.kind \in {"psbt", "v0"}
ContainerOf(x) == IF x.kind = "psbt" THEN x.psbt ELSE x.v0
MapsOf(x) ==
    <<ContainerOf(x).xpub, ContainerOf(x).proprietary, ContainerOf(x).unknown>>

Prefix(s, n) == SubSeq(s, 1, n)

-----------------------------------------------------------------------------
(* Properties *)

\* C1: Modern->Legacy conversion sets the transaction's lock_time to the
\* maximum of the locktime requirements the inputs declare, and to
\* fallback_locktime when no input declares one.
C1_LockTimeResolution ==
    \A i \in Steps : IsStep(i, "psbt", "v0") =>
        LET psbt == chain[i].psbt
            lock_time == chain[i + 1].v0.unsigned_tx.lock_time
        IN  /\ Declared(psbt) # {} => lock_time = SetMax(Declared(psbt))
            /\ Declared(psbt) = {} => lock_time = psbt.fallback_locktime

\* Declared {100, 500, absent} with fallback 50 resolves to 500.
C1_Witness ==
    /\ Len(chain) >= 2
    /\ IsStep(1, "psbt", "v0")
    /\ [k \in 1..Len(chain[1].psbt.inputs) |->
            chain[1].psbt.inputs[k].required_locktime]
         = <<Some(100), Some(500), None>>
    /\ chain[1].psbt.fallback_locktime = 50
    /\ chain[2].v0.unsigned_tx.lock_time = 500

\* C2: a container M built by Psbt::with(T, Modern), converted to Legacy and
\* back to Modern, equals M in every field except the version tag.
C2_WithRoundTrip ==
    (/\ Len(chain) >= 4
     /\ chain[1].kind = "tx"
     /\ chain[1].psbt_version = "V2"
     /\ chain[2].kind = "psbt")
    => SameExceptTag(chain[4].psbt, chain[2].psbt)

C2_Witness ==
    /\ Len(chain) = 4
    /\ chain[1].kind = "tx"
    /\ chain[1].psbt_version = "V2"
    /\ chain[2].kind = "psbt"
    /\ Len(chain[2].psbt.inputs) = 2
    /\ Len(chain[2].psbt.outputs) = 1
    /\ chain[2].psbt.tx_version = [hi |-> 258, lo |-> 772]
    /\ SameExceptTag(chain[4].psbt, chain[2].psbt)
    /\ chain[4].psbt.psbt_version # chain[2].psbt.psbt_version

\* C3 as stated: Legacy->Modern->Legacy and Modern->Legacy->Modern give back
\* the original container, every field and the version tag included.
C3_RoundTripIsIdentity ==
    \A i \in RoundTrips :
        /\ chain[i].kind = "v0" => chain[i + 2].v0 = chain[i].v0
        /\ chain[i].kind = "psbt" => chain[i + 2].psbt = chain[i].psbt

\* C3 amended: Legacy->Modern->Legacy gives back the container with its
\* arrays and the transaction's inputs (outputs) cut to the shorter of their
\* two lengths; Modern->Legacy->Modern gives back the container with the tag
\* V0, the resolved locktime as fallback_locktime and no declared locktimes.
C3_RoundTripAmended ==
    \A i \in RoundTrips :
        /\ chain[i].kind = "v0" =>
            LET a == chain[i].v0
                ni == ShorterLen(a.inputs, a.unsigned_tx.input)
                no == ShorterLen(a.outputs, a.unsigned_tx.output)
            IN  chain[i + 2].v0 =
                    [a EXCEPT !.inputs = Prefix(a.inputs, ni),
                              !.outputs = Prefix(a.outputs, no),
                              !.unsigned_tx.input = Prefix(a.unsigned_tx.input, ni),
                              !.unsigned_tx.output = Prefix(a.unsigned_tx.output, no)]
        /\ chain[i].kind = "psbt" =>
            LET a == chain[i].psbt
            IN  chain[i + 2].psbt =
                    [a EXCEPT !.psbt_version = "V0",
                              !.fallback_locktime = Resolved(a),
                              !.inputs = [k \in 1..Len(a.inputs) |->
                                  [a.inputs[k] EXCEPT !.required_locktime = None]]]

\* A legacy container with arrays as long as its transaction comes back
\* unchanged, and so does the modern container made from it.
C3_Witness ==
    /\ Len(chain) = 4
    /\ chain[1].kind = "v0"
    /\ Len(chain[1].v0.inputs) = 2
    /\ Len(chain[1].v0.unsigned_tx.input) = 2
    /\ chain[3].v0 = chain[1].v0
    /\ chain[4].psbt = chain[2].psbt

\* C4: both conversions keep the 32-bit pattern of the transaction version
\* (-1 is 0xFFFFFFFF), and the two reinterpretations undo each other.
C4_VersionBitPattern ==
    /\ \A i \in Steps :
        /\ IsStep(i, "v0", "psbt") =>
            /\ SameBits(chain[i].v0.unsigned_tx.version, chain[i + 1].psbt.tx_version)
            /\ chain[i].v0.unsigned_tx.version = -1 =>
                 chain[i + 1].psbt.tx_version = [hi |-> 65535, lo |-> 65535]
        /\ IsStep(i, "psbt", "v0") =>
            SameBits(chain[i + 1].v0.unsigned_tx.version, chain[i].psbt.tx_version)
    /\ \A i \in RoundTrips :
        /\ chain[i].kind = "v0" =>
            chain[i + 2].v0.unsigned_tx.version = chain[i].v0.unsigned_tx.version
        /\ chain[i].kind = "psbt" =>
            chain[i + 2].psbt.tx_version = chain[i].psbt.tx_version

C4_Witness ==
    /\ Len(chain) >= 3
    /\ chain[1].kind = "v0"
    /\ chain[1].v0.unsigned_tx.version = -1
    /\ chain[2].psbt.tx_version = [hi |-> 65535, lo |-> 65535]
    /\ chain[3].v0.unsigned_tx.version = -1

\* C5 as stated: Psbt::with on an unsigned transaction of version 1, 2, -1 or
\* 0x7FFFFFFF stores the version's bit pattern, and the conversion to Legacy
\* recovers the version.
C5_WithStoresBitPattern ==
    (/\ Len(chain) >= 2
     /\ chain[1].kind = "tx"
     /\ SignedAt(chain[1].tx) = {}
     /\ chain[1].tx.version \in {1, 2, -1, 2147483647})
    => /\ chain[2].kind = "psbt"
       /\ SameBits(chain[1].tx.version, chain[2].psbt.tx_version)
       /\ Len(chain) >= 3 => chain[3].v0.unsigned_tx.version = chain[1].tx.version

\* C5 amended: that holds of the versions 1, 2 and 0x7FFFFFFF; on version -1
\* Psbt::with fails with InvalidTxVersion(-1).
C5_WithStoresBitPatternAmended ==
    (/\ Len(chain) >= 2
     /\ chain[1].kind = "tx"
     /\ SignedAt(chain[1].tx) = {})
    => /\ chain[1].tx.version \in {1, 2, 2147483647} =>
            /\ chain[2].kind = "psbt"
            /\ SameBits(chain[1].tx.version, chain[2].psbt.tx_version)
            /\ Len(chain) >= 3 =>
                 chain[3].v0.unsigned_tx.version = chain[1].tx.version
       /\ chain[1].tx.version = -1 =>
            /\ chain[2].kind = "err"
            /\ chain[2].error = InvalidTxVersion(-1)

C5_Witness ==
    /\ Len(chain) >= 3
    /\ chain[1].kind = "tx"
    /\ SignedAt(chain[1].tx) = {}
    /\ Len(chain[1].tx.input) >= 1
    /\ chain[1].tx.version = 2147483647
    /\ chain[2].psbt.tx_version = [hi |-> 32767, lo |-> 65535]
    /\ chain[3].v0.unsigned_tx.version = 2147483647

\* C6: Psbt::with on a transaction with an input that is not unsigned returns
\* the error of the first such input, whatever the rest of the transaction.
C6_SignedInputFails ==
    (/\ Len(chain) >= 2
     /\ chain[1].kind = "tx"
     /\ SignedAt(chain[1].tx) # {})
    => /\ chain[2].kind = "err"
       /\ chain[2].error.type = "TxError::Txin"
       /\ chain[2].error.index = SetMin(SignedAt(chain[1].tx)) - 1

\* The second and third inputs are signed and the version is negative.
C6_Witness ==
    /\ Len(chain) = 2
    /\ chain[1].kind = "tx"
    /\ chain[1].tx.version = -1
    /\ SignedAt(chain[1].tx) = {2, 3}
    /\ chain[2].kind = "err"
    /\ chain[2].error.type = "TxError::Txin"
    /\ chain[2].error.index = 1

\* C7: Psbt::with on an unsigned transaction fails with InvalidTxVersion(v)
\* exactly when the version v does not fit a u32, and otherwise stores v.
C7_VersionRange ==
    (/\ Len(chain) >= 2
     /\ chain[1].kind = "tx"
     /\ SignedAt(chain[1].tx) = {})
    => IF chain[1].tx.version < 0
       THEN /\ chain[2].kind = "err"
            /\ chain[2].error.type = "TxError::InvalidTxVersion"
            /\ chain[2].error.version = chain[1].tx.version
       ELSE /\ chain[2].kind = "psbt"
            /\ chain[2].psbt.tx_version.hi < 32768
            /\ chain[2].psbt.tx_version.hi * 65536 + chain[2].psbt.tx_version.lo
                 = chain[1].tx.version

C7_Witness ==
    /\ Len(chain) = 2
    /\ chain[1].kind = "tx"
    /\ SignedAt(chain[1].tx) = {}
    /\ chain[1].tx.version = MinI32
    /\ chain[2].kind = "err"
    /\ chain[2].error.version = MinI32

\* C8: Legacy->Modern conversion of a container whose arrays are not as long
\* as its transaction's inputs and outputs fails and produces no container.
C8_LengthMismatchFails ==
    \A i \in Steps :
        (/\ chain[i].kind = "v0"
         /\ \/ Len(chain[i].v0.inputs) # Len(chain[i].v0.unsigned_tx.input)
            \/ Len(chain[i].v0.outputs) # Len(chain[i].v0.unsigned_tx.output))
        => chain[i + 1].kind # "psbt"

\* C9: every conversion, and every sequence of conversions, leaves the global
\* xpub, proprietary and unknown maps as they were.
C9_GlobalMapsKept ==
    \A i \in 1..Len(chain) : \A j \in 1..Len(chain) :
        IsContainer(chain[i]) /\ IsContainer(chain[j]) =>
            MapsOf(chain[i]) = MapsOf(chain[j])

C9_Witness ==
    /\ Len(chain) = 4
    /\ chain[1].kind = "v0"
    /\ chain[1].v0.proprietary = (<<252, "testvendor">> :> <<222, 173>>)
    /\ chain[1].v0.unknown = (153 :> <<190, 239>>)
    /\ chain[4].psbt.proprietary = (<<252, "testvendor">> :> <<222, 173>>)
    /\ chain[4].psbt.unknown = (153 :> <<190, 239>>)
    /\ chain[4].psbt.xpub = chain[1].v0.xpub

\* C10 as stated: the container Legacy->Modern conversion produces has its
\* version tag set to Modern.
C10_TagIsModern ==
    \A i \in Steps : IsStep(i, "v0", "psbt") =>
        chain[i + 1].psbt.psbt_version = "V2"

\* C10 amended: the container Legacy->Modern conversion produces has its
\* version tag set to V0, the generation it was converted from.
C10_TagIsLegacy ==
    \A i \in Steps : IsStep(i, "v0", "psbt") =>
        chain[i + 1].psbt.psbt_version = "V0"

C10_Witness ==
    /\ Len(chain) = 2
    /\ IsStep(1, "v0", "psbt")
    /\ Len(chain[2].psbt.inputs) = 1
    /\ chain[2].psbt.psbt_version = "V0"

====
